---- MODULE Spec2Model ----
(***************************************************************************)
(* Model of python_services/eye_tracking_service_websocket.py: the         *)
(* per-session focus state machine (WebSocketEyeTrackingSession) and the   *)
(* Socket.IO handlers that keep the registry active_sessions.              *)
(*                                                                         *)
(* Time.  time.time() is the variable clock, counted in ticks of           *)
(* 1/TicksPerSecond second.  A handler runs at one clock value: the calls  *)
(* of time.time() inside one handler read the same tick.  The time a       *)
(* blocking requests.post takes is a Tick after the handler (nothing reads *)
(* the clock between the post and the end of the handler).                 *)
(* The clock never goes back; its readings are any value from 0.0 on, and  *)
(* a run starts at StartClock or, on a host whose clock reads the epoch,   *)
(* at 0.0, the one timestamp that Python takes for false.                  *)
(*                                                                         *)
(* Scheduling.  The module is served by eventlet without monkey patching   *)
(* (lines 29-35, 543): a handler runs to its end before the next one       *)
(* starts, so every handler is one action.  running holds the handler      *)
(* calls the server has dispatched and that have not returned; where the   *)
(* dispatch is not followed on its own it is empty in every state.         *)
(***************************************************************************)
EXTENDS Integers, Sequences, FiniteSets, TLC

\* ------------------------------------------------------------- bounds
\* clock ticks in one second, and the clock at the start
TicksPerSecond == 3
StartClock == 5
\* Spec: sessions created, frames classified and clock advances, in all
MaxSessions == 2
MaxFrames == 2
MaxTicks == 1
\* SessionSpec: the same for the life of one session on one connection
SessionFrames == 3
SessionTicks == 3
\* StreamSpec: seconds a stream is followed for, and the frames of it in
\* which the viewer is seen focused
StreamSpan == 31
StreamFocused == 1
StreamGap == 2
\* WindowSpec: classified frames sent to the session, and clock advances
WindowFrames == 11
WindowTicks == 1
\* CallSpec: the same where the dispatch of the handlers is followed
CallFrames == 2
CallTicks == 1
\* EpochSpec: the same on a host whose clock reads the epoch at start-up
EpochFrames == 4
EpochTicks == 2

\* ------------------------------------------------- program constants
focus_history_size == 10
save_interval == 30
None == -1

\* request.sid of the connections, and the user_id values of the requests
Sids == {"sidA", "sidB"}
UserIds == {"u1", "u2"}
NoSid == "none"
\* the sessions constructed, in order of construction
SessionIds == 1..(MaxSessions + 1)

\* seconds -> ticks
Sec(n) == n * TicksPerSecond

\* The clock advances by a third of a second or by 8, 10 or 12 seconds.
Steps == {1, Sec(8), Sec(10), Sec(12)}
\* Between two frames of a stream it advances by at most StreamGap ticks.
StreamSteps == 1..StreamGap
\* The advances of the clock at each pace of a run.
StepsAt(pace) ==
    CASE pace = "stream" -> StreamSteps
      [] pace = "slow" -> {Sec(save_interval)}
      [] pace = "calls" -> {Sec(save_interval)}
      [] pace = "window" -> {1}
      [] pace = "epoch" -> {1, Sec(save_interval) - 1, Sec(save_interval)}
      [] OTHER -> Steps
AllSteps == Steps \cup StreamSteps \cup {Sec(save_interval) - 1, Sec(save_interval)}

\* data.get('user_id') of a request without the field (falsy)
Missing == "missing"

\* Python truthiness of an optional timestamp: None and 0.0 are falsy.
Truthy(x) == x # None /\ x # 0

\* round-half-even of the rational n/d (n >= 0, d > 0) to an integer: what
\* round(x, 1) does to the exact value, in tenths.
RoundHalfEven(n, d) ==
    LET q == n \div d
        r == n % d
    IN  IF 2 * r < d THEN q
        ELSE IF 2 * r > d THEN q + 1
        ELSE IF q % 2 = 0 THEN q ELSE q + 1

\* round(seconds, 1) of a duration held in ticks; the result is in tenths
\* of a second.
Round1(ticks) == RoundHalfEven(10 * ticks, TicksPerSecond)

RECURSIVE SumBools(_)
SumBools(h) ==
    IF h = <<>> THEN 0
    ELSE (IF Head(h) THEN 1 ELSE 0) + SumBools(Tail(h))

\* ---------------------------------------------------------- session
\* WebSocketEyeTrackingSession.__init__; id, first_obs, last_obs, flips and
\* closed (the closed intervals of both lists in the order they were
\* closed) are history fields of the model (the code has no such fields).
NewSession(id, user_id, module_id, now) ==
    [ id |-> id,
      user_id |-> user_id,
      module_id |-> module_id,
      is_focused |-> FALSE,
      focus_history |-> <<>>,
      session_start |-> now,
      accumulated_focused_time |-> 0,
      accumulated_unfocused_time |-> 0,
      current_focus_session_start |-> None,
      current_unfocus_session_start |-> None,
      last_save_time |-> now,
      focus_sessions |-> <<>>,
      unfocus_sessions |-> <<>>,
      first_obs |-> None,
      last_obs |-> None,
      flips |-> <<>>,
      closed |-> <<>> ]

\* an eviction that drops the newest observation
PushHistory_dropping_newest(h, b) ==
    LET a == Append(h, b)
    IN  IF Len(a) > focus_history_size THEN SubSeq(a, 1, focus_history_size) ELSE a

\* focus_history after the append and the eviction of lines 268-270
PushHistory(h, b) ==
    LET a == Append(h, b)
    IN  IF Len(a) > focus_history_size THEN Tail(a) ELSE a

\* a smoother that asks for a unanimous window
Smoothed_unanimous(h) == SumBools(h) = Len(h)

\* lines 273-274: focus_ratio > 0.6, in integers
Smoothed(h) == 10 * SumBools(h) > 6 * Len(h)

\* an update_focus_state that begins the open interval anew at every
\* observation
update_focus_state_restarting(s, is_focused_now, now) ==
    LET h == PushHistory(s.focus_history, is_focused_now)
    IN  [s EXCEPT !.focus_history = h,
                  !.first_obs = IF s.first_obs = None THEN now ELSE @,
                  !.last_obs = now,
                  !.is_focused = Smoothed(h),
                  !.current_focus_session_start = IF Smoothed(h) THEN now ELSE None,
                  !.current_unfocus_session_start = IF Smoothed(h) THEN None ELSE now]

\* an update_focus_state that adds the duration of every closed interval,
\* focused or not, to the focused total
update_focus_state_one_total(s, is_focused_now, now) ==
    LET h == PushHistory(s.focus_history, is_focused_now)
        start == IF s.is_focused THEN s.current_focus_session_start
                 ELSE s.current_unfocus_session_start
        closing == Truthy(start)
        entry == [start |-> start, end |-> now, duration |-> now - start]
        s0 == [s EXCEPT !.focus_history = h,
                        !.first_obs = IF s.first_obs = None THEN now ELSE @,
                        !.last_obs = now]
    IN  IF Smoothed(h) = s.is_focused THEN s0
        ELSE [s0 EXCEPT
                !.accumulated_focused_time = IF closing THEN @ + entry.duration ELSE @,
                !.focus_sessions = IF closing /\ s.is_focused THEN Append(@, entry) ELSE @,
                !.unfocus_sessions = IF closing /\ ~s.is_focused THEN Append(@, entry) ELSE @,
                !.closed =
                    IF closing
                    THEN Append(@, [kind |-> IF s.is_focused THEN "focus" ELSE "unfocus",
                                    start |-> start, end |-> now, duration |-> now - start])
                    ELSE @,
                !.current_focus_session_start =
                    IF s.is_focused THEN (IF closing THEN None ELSE @) ELSE now,
                !.current_unfocus_session_start =
                    IF s.is_focused THEN now ELSE (IF closing THEN None ELSE @),
                !.is_focused = Smoothed(h),
                !.flips = Append(@, [at |-> now, to |-> Smoothed(h)])]

\* an update_focus_state that opens the new interval a tick after the flip
update_focus_state_opening_late(s, is_focused_now, now) ==
    LET h == PushHistory(s.focus_history, is_focused_now)
        start == IF s.is_focused THEN s.current_focus_session_start
                 ELSE s.current_unfocus_session_start
        closing == Truthy(start)
        entry == [start |-> start, end |-> now, duration |-> now - start]
        s0 == [s EXCEPT !.focus_history = h,
                        !.first_obs = IF s.first_obs = None THEN now ELSE @,
                        !.last_obs = now]
    IN  IF Smoothed(h) = s.is_focused THEN s0
        ELSE [s0 EXCEPT
                !.accumulated_focused_time =
                    IF closing /\ s.is_focused THEN @ + entry.duration ELSE @,
                !.accumulated_unfocused_time =
                    IF closing /\ ~s.is_focused THEN @ + entry.duration ELSE @,
                !.focus_sessions = IF closing /\ s.is_focused THEN Append(@, entry) ELSE @,
                !.unfocus_sessions = IF closing /\ ~s.is_focused THEN Append(@, entry) ELSE @,
                !.closed =
                    IF closing
                    THEN Append(@, [kind |-> IF s.is_focused THEN "focus" ELSE "unfocus",
                                    start |-> start, end |-> now, duration |-> now - start])
                    ELSE @,
                !.current_focus_session_start =
                    IF s.is_focused THEN (IF closing THEN None ELSE @) ELSE now + 1,
                !.current_unfocus_session_start =
                    IF s.is_focused THEN now + 1 ELSE (IF closing THEN None ELSE @),
                !.is_focused = Smoothed(h),
                !.flips = Append(@, [at |-> now, to |-> Smoothed(h)])]

\* update_focus_state, lines 265-312
update_focus_state(s, is_focused_now, now) ==
    LET h == PushHistory(s.focus_history, is_focused_now)
        smoothed_focus == Smoothed(h)
        s0 == [s EXCEPT !.focus_history = h,
                        !.first_obs = IF s.first_obs = None THEN now ELSE @,
                        !.last_obs = now]
    IN  IF smoothed_focus = s.is_focused THEN s0
        ELSE LET s1 ==
                   IF s.is_focused
                   THEN LET closing == Truthy(s.current_focus_session_start)
                            duration == now - s.current_focus_session_start
                        IN  [s0 EXCEPT
                               !.accumulated_focused_time =
                                   IF closing THEN @ + duration ELSE @,
                               !.focus_sessions =
                                   IF closing
                                   THEN Append(@, [start |-> s.current_focus_session_start,
                                                   end |-> now,
                                                   duration |-> duration])
                                   ELSE @,
                               !.closed =
                                   IF closing
                                   THEN Append(@, [kind |-> "focus",
                                                   start |-> s.current_focus_session_start,
                                                   end |-> now,
                                                   duration |-> duration])
                                   ELSE @,
                               !.current_focus_session_start =
                                   IF closing THEN None ELSE @,
                               !.current_unfocus_session_start = now]
                   ELSE LET closing == Truthy(s.current_unfocus_session_start)
                            duration == now - s.current_unfocus_session_start
                        IN  [s0 EXCEPT
                               !.accumulated_unfocused_time =
                                   IF closing THEN @ + duration ELSE @,
                               !.unfocus_sessions =
                                   IF closing
                                   THEN Append(@, [start |-> s.current_unfocus_session_start,
                                                   end |-> now,
                                                   duration |-> duration])
                                   ELSE @,
                               !.closed =
                                   IF closing
                                   THEN Append(@, [kind |-> "unfocus",
                                                   start |-> s.current_unfocus_session_start,
                                                   end |-> now,
                                                   duration |-> duration])
                                   ELSE @,
                               !.current_unfocus_session_start =
                                   IF closing THEN None ELSE @,
                               !.current_focus_session_start = now]
             IN  [s1 EXCEPT !.is_focused = smoothed_focus,
                            !.flips = Append(@, [at |-> now, to |-> smoothed_focus])]

\* a get_metrics that forgets the interval still open
current_focused_closed_only(s, now) == s.accumulated_focused_time

\* get_metrics, lines 319-326: the totals before rounding, in ticks
current_focused(s, now) ==
    s.accumulated_focused_time +
    (IF Truthy(s.current_focus_session_start)
     THEN now - s.current_focus_session_start ELSE 0)

current_unfocused(s, now) ==
    s.accumulated_unfocused_time +
    (IF Truthy(s.current_unfocus_session_start)
     THEN now - s.current_unfocus_session_start ELSE 0)

\* get_metrics, lines 314-339.  Times are in tenths of a second and the
\* percentage in tenths of a percent (round(x, 1)).
get_metrics(s, now) ==
    LET total_time == current_focused(s, now) + current_unfocused(s, now)
    IN  [ focused_time |-> Round1(current_focused(s, now)),
          unfocused_time |-> Round1(current_unfocused(s, now)),
          total_time |-> Round1(total_time),
          focus_percentage |->
              IF total_time > 0
              THEN RoundHalfEven(1000 * current_focused(s, now), total_time)
              ELSE 0,
          focus_sessions |-> Len(s.focus_sessions),
          unfocus_sessions |-> Len(s.unfocus_sessions),
          current_state |-> IF s.is_focused THEN "focused" ELSE "unfocused" ]

\* a get_metrics that moves the open focused time into the total
after_get_metrics_accumulating(s, now) ==
    [s EXCEPT !.accumulated_focused_time = current_focused(s, now)]

\* The session after a call of get_metrics, lines 314-339: the method
\* assigns no attribute of self.
after_get_metrics(s, now) == s

\* ------------------------------------------------------ persistence
SinkOutcomes == {"ok", "server_error", "http_error", "timeout"}

\* a save_tracking_data whose try does not cover the post
save_tracking_data_raising(s, metrics, outcome) ==
    [raised |-> outcome = "timeout", posts |-> <<[id |-> s.id]>>]

\* save_tracking_data, lines 341-384.  outcome is what requests.post does:
\* "ok" (200, success), "server_error" (200, success false), "http_error"
\* (status other than 200), "timeout" (requests.post raises).  posts is the
\* sequence of requests sent; raised tells whether an exception leaves
\* the function.
save_tracking_data(s, metrics, outcome) ==
    IF s.user_id = Missing \/ s.module_id = Missing
    THEN [raised |-> FALSE, posts |-> <<>>]
    ELSE [raised |-> FALSE,
          posts |-> << [ id |-> s.id,
                         user_id |-> s.user_id,
                         module_id |-> s.module_id,
                         focused_time |-> metrics.focused_time,
                         unfocused_time |-> metrics.unfocused_time,
                         total_time |-> metrics.total_time,
                         focus_percentage |-> metrics.focus_percentage,
                         focus_sessions |-> metrics.focus_sessions,
                         unfocus_sessions |-> metrics.unfocus_sessions ] >>]

\* The frames a client can send: no frame field, an undecodable frame, a
\* frame on which MediaPipe raises, a frame classified by
\* is_looking_at_screen (lines 147-263) as focused or not.
NoFrame == [kind |-> "none", is_focused |-> FALSE, gaze_direction |-> "none"]

Frames ==
    { [kind |-> "missing", is_focused |-> FALSE, gaze_direction |-> "none"],
      [kind |-> "malformed", is_focused |-> FALSE, gaze_direction |-> "none"],
      [kind |-> "classifier_raises", is_focused |-> FALSE, gaze_direction |-> "none"],
      [kind |-> "ok", is_focused |-> TRUE, gaze_direction |-> "centered"],
      [kind |-> "ok", is_focused |-> FALSE, gaze_direction |-> "no_face"] }

\* a periodic-save test that asks for more than save_interval
SaveDue_strictly_later(s, current_time) ==
    current_time - s.last_save_time > Sec(save_interval)

\* The periodic-save test of line 110.
SaveDue(s, current_time) == current_time - s.last_save_time >= Sec(save_interval)

\* a process_frame that takes an undecodable frame for an unfocused one
process_frame_counting_malformed(s, frame, now, outcome) ==
    IF frame.kind = "classifier_raises"
    THEN [session |-> s, result |-> <<>>, posts |-> <<>>]
    ELSE LET s1 == update_focus_state(s, frame.is_focused, now)
             metrics == get_metrics(s1, now)
             due == SaveDue(s1, now)
             sv == IF due THEN save_tracking_data(s1, metrics, outcome)
                   ELSE [raised |-> FALSE, posts |-> <<>>]
         IN  [session |-> IF due THEN [s1 EXCEPT !.last_save_time = now] ELSE s1,
              result |-> << [ is_focused |-> s1.is_focused,
                              gaze_direction |-> frame.gaze_direction,
                              metrics |-> metrics ] >>,
              posts |-> sv.posts]

\* a process_frame that moves last_save_time only when the sink accepted
\* the save
process_frame_keeping_time_on_failure(s, frame, now, outcome) ==
    IF frame.kind = "malformed" \/ frame.kind = "classifier_raises"
    THEN [session |-> s, result |-> <<>>, posts |-> <<>>]
    ELSE LET s1 == update_focus_state(s, frame.is_focused, now)
             metrics == get_metrics(s1, now)
             due == SaveDue(s1, now)
             sv == IF due THEN save_tracking_data(s1, metrics, outcome)
                   ELSE [raised |-> FALSE, posts |-> <<>>]
         IN  [session |-> IF due /\ outcome = "ok"
                          THEN [s1 EXCEPT !.last_save_time = now] ELSE s1,
              result |-> << [ is_focused |-> s1.is_focused,
                              gaze_direction |-> frame.gaze_direction,
                              metrics |-> metrics ] >>,
              posts |-> sv.posts]

\* process_frame, lines 82-123.  result is empty for None.
process_frame(s, frame, now, outcome) ==
    IF frame.kind = "malformed" \/ frame.kind = "classifier_raises"
    THEN [session |-> s, result |-> <<>>, posts |-> <<>>]
    ELSE LET s0 == update_focus_state(s, frame.is_focused, now)
             metrics == get_metrics(s0, now)
             s1 == after_get_metrics(s0, now)
             due == SaveDue(s1, now)
             sv == IF due THEN save_tracking_data(s1, metrics, outcome)
                   ELSE [raised |-> FALSE, posts |-> <<>>]
         IN  IF sv.raised
             THEN [session |-> s1, result |-> <<>>, posts |-> sv.posts]
             ELSE [session |-> IF due THEN [s1 EXCEPT !.last_save_time = now] ELSE s1,
                   result |-> << [ is_focused |-> s1.is_focused,
                                   gaze_direction |-> frame.gaze_direction,
                                   metrics |-> metrics ] >>,
                   posts |-> sv.posts]

\* cleanup, lines 386-396: the final save (closing the face mesh changes
\* nothing the handlers read).
cleanup(s, now, outcome) == save_tracking_data(s, get_metrics(s, now), outcome)

\* ---------------------------------------------------------- registry
\* active_sessions is a dict: a sequence of entries in insertion order.
RECURSIVE FirstIndex(_, _, _)
FirstIndex(reg, P(_), i) ==
    IF i > Len(reg) THEN 0
    ELSE IF P(reg[i]) THEN i
    ELSE FirstIndex(reg, P, i + 1)

\* index of the entry of key user_id, 0 when there is none
KeyIndex(reg, user_id) == FirstIndex(reg, LAMBDA e: e.user_id = user_id, 1)

\* a lookup that takes the first session of the registry, whoever owns it
OwnedIndex_any_owner(reg, sid) == IF reg = <<>> THEN 0 ELSE 1

\* first entry, in iteration order, whose 'sid' is sid (0 when none): the
\* loops of lines 463-466 and 488-495
OwnedIndex(reg, sid) == FirstIndex(reg, LAMBDA e: e.sid = sid, 1)

\* active_sessions[user_id] = {...}, line 436: an existing key keeps its
\* place, a new key goes last.
SetItem(reg, entry) ==
    LET i == KeyIndex(reg, entry.user_id)
    IN  IF i = 0 THEN Append(reg, entry) ELSE [reg EXCEPT ![i] = entry]

\* del active_sessions[user_id]
DelItem(reg, i) == [j \in 1..(Len(reg) - 1) |-> IF j < i THEN reg[j] ELSE reg[j + 1]]

RECURSIVE Concat(_)
Concat(ss) == IF ss = <<>> THEN <<>> ELSE Head(ss) \o Concat(Tail(ss))

VARIABLES
    clock,            \* time.time(), in ticks
    left,             \* what the run may still do, and the pace of the clock
    conn,             \* sid -> "fresh" | "connected" | "gone"
    active_sessions,  \* the registry
    ledger,           \* session id -> its life so far (history)
    out,              \* the last handler run: its frame, emits, posts and responses
    running           \* the handler calls dispatched and not yet returned

vars == <<clock, left, conn, active_sessions, ledger, out, running>>

Entries == {active_sessions[i] : i \in 1..Len(active_sessions)}
Sessions == {e.session : e \in Entries}
Born == {i \in SessionIds : ledger[i].status # "unborn"}

NoLedger == [i \in SessionIds |-> [status |-> "unborn", finals |-> 0, periodic |-> 0]]
NoOut ==
    [op |-> "init", sid |-> NoSid, frame |-> NoFrame, emitted |-> <<>>, posts |-> <<>>,
     responses |-> <<>>]

\* The server after start-up: no client, an empty registry (line 38).
Init ==
    /\ clock = StartClock
    /\ left = [sessions |-> MaxSessions, frames |-> MaxFrames, ticks |-> MaxTicks,
               focused |-> None, pace |-> "free"]
    /\ conn = [c \in Sids |-> "fresh"]
    /\ active_sessions = <<>>
    /\ ledger = NoLedger
    /\ out = NoOut
    /\ running = <<>>

Emit(event) == [event |-> event]

Handled(op, sid, emitted, posts, outcome) ==
    out' = [op |-> op, sid |-> sid, frame |-> NoFrame, emitted |-> emitted,
            posts |-> posts, responses |-> [k \in 1..Len(posts) |-> outcome]]

\* the same for a handle_video_frame that called process_frame, with the
\* frame it passed
HandledFrame(frame, sid, emitted, posts, outcome) ==
    out' = [op |-> "video_frame", sid |-> sid, frame |-> frame, emitted |-> emitted,
            posts |-> posts, responses |-> [k \in 1..Len(posts) |-> outcome]]

\* The handler call [op, sid] is the one the server is running: where the
\* dispatch is followed (pace "calls") it has been dispatched and is the
\* oldest call not returned; elsewhere dispatch and run are one step.
InHand(op, sid) ==
    IF left.pace = "calls"
    THEN running # <<>> /\ Head(running) = [op |-> op, sid |-> sid]
    ELSE running = <<>>

\* the calls in flight once the handler in hand has returned
Returned == IF running = <<>> THEN running ELSE Tail(running)

\* The passage of time between two handlers.  At the pace "window" the clock
\* advances before the run of frames, not within it.  At the pace "stream" the
\* client sends a frame at every reading of the clock: the clock moves on,
\* by a third or two thirds of a second, once every live session has
\* processed a frame at the current reading.
Tick(d) ==
    /\ running = <<>>
    /\ d \in StepsAt(left.pace)
    /\ IF left.pace = "stream"
       THEN /\ clock + d <= StartClock + Sec(StreamSpan)
            /\ active_sessions # <<>>
            /\ \A s \in Sessions : s.last_obs = clock
            /\ UNCHANGED left
       ELSE /\ left.ticks > 0
            /\ left.pace = "window" => \A s \in Sessions : s.first_obs = None
            /\ left' = [left EXCEPT !.ticks = @ - 1]
    /\ clock' = clock + d
    /\ Handled("tick", NoSid, <<>>, <<>>, "ok")
    /\ UNCHANGED <<conn, active_sessions, ledger, running>>

\* handle_connect, lines 401-405
handle_connect(sid) ==
    /\ conn[sid] = "fresh"
    /\ running = <<>>
    /\ conn' = [conn EXCEPT ![sid] = "connected"]
    /\ Handled("connect", sid, <<Emit("connected")>>, <<>>, "ok")
    /\ UNCHANGED <<clock, left, active_sessions, ledger, running>>

\* the ledger after the entries torn down by cleanup-and-del have gone
Retire(led, gone) ==
    [i \in SessionIds |->
        IF \E k \in 1..Len(gone) : gone[k].session.id = i
        THEN [led[i] EXCEPT !.status = "gone", !.finals = @ + 1]
        ELSE led[i]]

\* a handle_disconnect that stops at the first session of the connection
handle_disconnect_first_only(sid, outcome) ==
    /\ conn[sid] = "connected"
    /\ InHand("disconnect", sid)
    /\ running' = Returned
    /\ OwnedIndex(active_sessions, sid) = 0 => outcome = "ok"
    /\ conn' = [conn EXCEPT ![sid] = "gone"]
    /\ LET i == OwnedIndex(active_sessions, sid)
       IN  IF i = 0
           THEN /\ Handled("disconnect", sid, <<>>, <<>>, "ok")
                /\ UNCHANGED <<active_sessions, ledger>>
           ELSE /\ active_sessions' = DelItem(active_sessions, i)
                /\ ledger' = Retire(ledger, <<active_sessions[i]>>)
                /\ Handled("disconnect", sid, <<>>,
                           cleanup(active_sessions[i].session, clock, outcome).posts,
                           outcome)
    /\ UNCHANGED <<clock, left>>

\* handle_disconnect, lines 407-418
handle_disconnect(sid, outcome) ==
    /\ conn[sid] = "connected"
    /\ InHand("disconnect", sid)
    /\ running' = Returned
    /\ OwnedIndex(active_sessions, sid) = 0 => outcome = "ok"
    /\ conn' = [conn EXCEPT ![sid] = "gone"]
    /\ LET mine == SelectSeq(active_sessions, LAMBDA e: e.sid = sid)
           done == [k \in 1..Len(mine) |-> cleanup(mine[k].session, clock, outcome)]
           \* an exception leaving cleanup ends the loop: entries from there on stay
           stop == FirstIndex(done, LAMBDA c: c.raised, 1)
           n == IF stop = 0 THEN Len(mine) ELSE stop - 1
           removed == SubSeq(mine, 1, n)
       IN  /\ active_sessions' =
                  SelectSeq(active_sessions,
                            LAMBDA e: \A k \in 1..n : removed[k].user_id # e.user_id)
           /\ ledger' = Retire(ledger, removed)
           /\ Handled("disconnect", sid, <<>>,
                      Concat([k \in 1..(IF stop = 0 THEN n ELSE stop) |-> done[k].posts]),
                      outcome)
    /\ UNCHANGED <<clock, left>>

\* handle_start_tracking, lines 420-450.  user_id and module_id are Missing
\* when the request lacks them.
handle_start_tracking(sid, user_id, module_id) ==
    /\ conn[sid] = "connected"
    /\ running = <<>>
    /\ IF user_id = Missing \/ module_id = Missing
       THEN /\ Handled("start_tracking", sid, <<Emit("error")>>, <<>>, "ok")
            /\ UNCHANGED <<left, active_sessions, ledger>>
       ELSE /\ left.sessions > 0
            /\ left' = [left EXCEPT !.sessions = @ - 1]
            /\ LET id == Cardinality(Born) + 1
                   i == KeyIndex(active_sessions, user_id)
                   session == NewSession(id, user_id, module_id, clock)
               IN  /\ active_sessions' =
                          SetItem(active_sessions,
                                  [user_id |-> user_id, sid |-> sid, session |-> session])
                   /\ ledger' =
                          [j \in SessionIds |->
                              IF j = id THEN [ledger[j] EXCEPT !.status = "live"]
                              ELSE IF i # 0 /\ active_sessions[i].session.id = j
                              THEN [ledger[j] EXCEPT !.status = "gone"]
                              ELSE ledger[j]]
            /\ Handled("start_tracking", sid, <<Emit("tracking_started")>>, <<>>, "ok")
    /\ UNCHANGED <<clock, conn, running>>

\* Whether handling this frame sends a request to the sink.  A handler
\* that sends none is taken with the one outcome "ok": no response is read.
Posting(sid, frame) ==
    LET i == OwnedIndex(active_sessions, sid)
    IN  /\ i # 0
        /\ frame.kind = "ok"
        /\ SaveDue(active_sessions[i].session, clock)

\* handle_video_frame, lines 452-481
handle_video_frame(sid, frame, outcome) ==
    /\ conn[sid] = "connected"
    /\ InHand("video_frame", sid)
    /\ running' = Returned
    /\ ~Posting(sid, frame) => outcome = "ok"
    /\ LET i == OwnedIndex(active_sessions, sid)
       IN  IF frame.kind = "missing" \/ i = 0
           THEN /\ Handled("video_frame", sid, <<>>, <<>>, "ok")
                /\ UNCHANGED <<left, active_sessions, ledger>>
           ELSE LET s == active_sessions[i].session
                    r == process_frame(s, frame, clock, outcome)
                    spent == [left EXCEPT !.frames = IF @ > 0 THEN @ - 1 ELSE @,
                                          !.focused = IF frame.is_focused /\ @ > 0
                                                      THEN @ - 1 ELSE @]
                IN  /\ frame.kind = "ok" =>
                           IF left.pace = "stream" THEN s.last_obs # clock
                           ELSE left.frames > 0
                    /\ frame.is_focused => left.focused # 0
                    /\ left' = IF frame.kind = "ok" THEN spent ELSE left
                    /\ active_sessions' = [active_sessions EXCEPT ![i].session = r.session]
                    /\ ledger' = [ledger EXCEPT ![s.id].periodic = @ + Len(r.posts)]
                    /\ HandledFrame(frame, sid,
                                    [k \in 1..Len(r.result) |->
                                        [event |-> "tracking_update", data |-> r.result[k]]],
                                    r.posts, outcome)
    /\ UNCHANGED <<clock, conn>>

\* a handle_stop_tracking that acknowledges whether or not it found a session
handle_stop_tracking_acks_always(sid, outcome) ==
    /\ conn[sid] = "connected"
    /\ InHand("stop_tracking", sid)
    /\ running' = Returned
    /\ OwnedIndex(active_sessions, sid) = 0 => outcome = "ok"
    /\ LET i == OwnedIndex(active_sessions, sid)
           c == cleanup(active_sessions[i].session, clock, outcome)
       IN  IF i = 0
           THEN /\ Handled("stop_tracking", sid, <<Emit("tracking_stopped")>>, <<>>, "ok")
                /\ UNCHANGED <<left, active_sessions, ledger>>
           ELSE /\ active_sessions' = DelItem(active_sessions, i)
                /\ ledger' = Retire(ledger, <<active_sessions[i]>>)
                /\ UNCHANGED left
                /\ Handled("stop_tracking", sid, <<Emit("tracking_stopped")>>,
                           c.posts, outcome)
    /\ UNCHANGED <<clock, conn>>

\* a handle_stop_tracking that saves the final data and keeps the entry
handle_stop_tracking_keeping_entry(sid, outcome) ==
    /\ conn[sid] = "connected"
    /\ InHand("stop_tracking", sid)
    /\ running' = Returned
    /\ OwnedIndex(active_sessions, sid) = 0 => outcome = "ok"
    /\ LET i == OwnedIndex(active_sessions, sid)
       IN  IF i = 0
           THEN /\ Handled("stop_tracking", sid, <<>>, <<>>, "ok")
                /\ UNCHANGED <<left, active_sessions, ledger>>
           ELSE /\ ledger' = Retire(ledger, <<active_sessions[i]>>)
                /\ UNCHANGED <<left, active_sessions>>
                /\ Handled("stop_tracking", sid, <<Emit("tracking_stopped")>>,
                           cleanup(active_sessions[i].session, clock, outcome).posts,
                           outcome)
    /\ UNCHANGED <<clock, conn>>

\* handle_stop_tracking, lines 483-501
handle_stop_tracking(sid, outcome) ==
    /\ conn[sid] = "connected"
    /\ InHand("stop_tracking", sid)
    /\ running' = Returned
    /\ OwnedIndex(active_sessions, sid) = 0 => outcome = "ok"
    /\ LET i == OwnedIndex(active_sessions, sid)
       IN  IF i = 0
           THEN /\ Handled("stop_tracking", sid, <<>>, <<>>, "ok")
                /\ UNCHANGED <<left, active_sessions, ledger>>
           ELSE LET c == cleanup(active_sessions[i].session, clock, outcome)
                IN  IF c.raised
                    THEN /\ Handled("stop_tracking", sid, <<Emit("error")>>, c.posts, outcome)
                         /\ UNCHANGED <<left, active_sessions, ledger>>
                    ELSE /\ active_sessions' = DelItem(active_sessions, i)
                         /\ ledger' = Retire(ledger, <<active_sessions[i]>>)
                         /\ UNCHANGED left
                         /\ Handled("stop_tracking", sid, <<Emit("tracking_stopped")>>,
                                    c.posts, outcome)
    /\ UNCHANGED <<clock, conn>>

Next ==
    \/ \E d \in AllSteps : Tick(d)
    \/ \E sid \in Sids : handle_connect(sid)
    \/ \E sid \in Sids, outcome \in SinkOutcomes : handle_disconnect(sid, outcome)
    \/ \E sid \in Sids, user_id \in UserIds \cup {Missing}, module_id \in {"m1", Missing} :
           handle_start_tracking(sid, user_id, module_id)
    \/ \E sid \in Sids, frame \in Frames, outcome \in SinkOutcomes :
           handle_video_frame(sid, frame, outcome)
    \/ \E sid \in Sids, outcome \in SinkOutcomes : handle_stop_tracking(sid, outcome)

Spec == Init /\ [][Next]_vars

\* One connection and the one session it starts, followed for longer: the
\* other connection has come and gone before.
OneConnection == [c \in Sids |-> IF c = "sidA" THEN "fresh" ELSE "gone"]

SessionInit ==
    /\ clock = StartClock
    /\ left = [sessions |-> 1, frames |-> SessionFrames, ticks |-> SessionTicks,
               focused |-> None, pace |-> "free"]
    /\ conn = OneConnection
    /\ active_sessions = <<>>
    /\ ledger = NoLedger
    /\ out = NoOut
    /\ running = <<>>

SessionSpec == SessionInit /\ [][Next]_vars

\* One connection whose client streams frames without a break for more
\* than save_interval seconds; the viewer is seen focused in at most
\* StreamFocused frames.
StreamInit ==
    /\ clock = StartClock
    /\ left = [sessions |-> 1, frames |-> 0, ticks |-> 0,
               focused |-> StreamFocused, pace |-> "stream"]
    /\ conn = OneConnection
    /\ active_sessions = <<>>
    /\ ledger = NoLedger
    /\ out = NoOut
    /\ running = <<>>

StreamSpec == StreamInit /\ [][Next]_vars

\* One connection whose session is sent a run of WindowFrames classified
\* frames, handled within one reading of the clock: the smoothing window
\* fills and evicts.
WindowInit ==
    /\ clock = StartClock
    /\ left = [sessions |-> 1, frames |-> WindowFrames, ticks |-> WindowTicks,
               focused |-> None, pace |-> "window"]
    /\ conn = OneConnection
    /\ active_sessions = <<>>
    /\ ledger = NoLedger
    /\ out = NoOut
    /\ running = <<>>

WindowSpec == WindowInit /\ [][Next]_vars

\* Two connections and their sessions, with save_interval seconds between
\* two readings of the clock: a frame after the advance is due a periodic save.
SlowInit ==
    /\ clock = StartClock
    /\ left = [sessions |-> MaxSessions, frames |-> MaxFrames, ticks |-> MaxTicks,
               focused |-> None, pace |-> "slow"]
    /\ conn = [c \in Sids |-> "fresh"]
    /\ active_sessions = <<>>
    /\ ledger = NoLedger
    /\ out = NoOut
    /\ running = <<>>

SlowSpec == SlowInit /\ [][Next]_vars

\* a dispatch that does not wait for the call in flight to return
Dispatch_while_running(op, sid) ==
    /\ left.pace = "calls"
    /\ conn[sid] = "connected"
    /\ Len(running) < 2
    /\ running' = Append(running, [op |-> op, sid |-> sid])
    /\ UNCHANGED <<clock, left, conn, active_sessions, ledger, out>>

\* The dispatch of an event of a connected client to its handler (the
\* socketio.on registrations of lines 452, 483 and 407).  The server runs
\* its handlers on one thread and no handler yields before it returns, so
\* an event is dispatched only when no call is in flight.
Dispatch(op, sid) ==
    /\ left.pace = "calls"
    /\ conn[sid] = "connected"
    /\ running = <<>>
    /\ running' = Append(running, [op |-> op, sid |-> sid])
    /\ UNCHANGED <<clock, left, conn, active_sessions, ledger, out>>

CallNext ==
    \/ Next
    \/ \E op \in {"video_frame", "stop_tracking", "disconnect"}, sid \in Sids :
           Dispatch(op, sid)

\* One connection and its session, with the dispatch of each frame, stop
\* and disconnect followed apart from the run of its handler.
CallInit ==
    /\ clock = StartClock
    /\ left = [sessions |-> 1, frames |-> CallFrames, ticks |-> CallTicks,
               focused |-> None, pace |-> "calls"]
    /\ conn = OneConnection
    /\ active_sessions = <<>>
    /\ ledger = NoLedger
    /\ out = NoOut
    /\ running = <<>>

CallSpec == CallInit /\ [][CallNext]_vars

\* One connection and its session on a host whose clock, time.time(), reads
\* 0.0 when the server starts: the timestamps of the session go from the
\* epoch on, and the clock advances by a third of a second, by
\* save_interval seconds or by a third of a second less than that.
EpochInit ==
    /\ clock = 0
    /\ left = [sessions |-> 1, frames |-> EpochFrames, ticks |-> EpochTicks,
               focused |-> None, pace |-> "epoch"]
    /\ conn = OneConnection
    /\ active_sessions = <<>>
    /\ ledger = NoLedger
    /\ out = NoOut
    /\ running = <<>>

EpochSpec == EpochInit /\ [][Next]_vars

\* ------------------------------------------------------------ claims
\* C1: time conservation.  For every live session that has had its first
\* observation, the focused and unfocused totals of get_metrics at the
\* current time add up to the time elapsed since that first observation.
C1_TimeConservation ==
    \A s \in Sessions :
        s.first_obs # None =>
            current_focused(s, clock) + current_unfocused(s, clock) = clock - s.first_obs

\* C3: no interval is open before the first classification; from then on
\* exactly one of the two interval starts is set, and it is the one of
\* the current state.
C3_ExactlyOneOpen ==
    \A s \in Sessions :
        /\ s.first_obs = None =>
               /\ s.current_focus_session_start = None
               /\ s.current_unfocus_session_start = None
        /\ s.first_obs # None =>
               /\ (s.current_focus_session_start # None)
                      # (s.current_unfocus_session_start # None)
               /\ (s.current_focus_session_start # None) = s.is_focused

\* C6: every session that has left the registry has had exactly one final
\* flush, and no session has had more than one.
C6_OneFinalFlush ==
    \A id \in SessionIds :
        /\ ledger[id].finals <= 1
        /\ ledger[id].status = "gone" => ledger[id].finals = 1

\* What the spec asks of a flip from s to s2 at time now: one entry more
\* in the list of the state left, spanning the open interval; its duration
\* added to the total of that state; the other list and total as they
\* were; an interval of the new state open from now.
FlipClosesOne(s, s2, now) ==
    LET start == IF s.is_focused THEN s.current_focus_session_start
                 ELSE s.current_unfocus_session_start
        entry == [start |-> start, end |-> now, duration |-> now - start]
    IN  IF s.is_focused
        THEN /\ s2.focus_sessions = Append(s.focus_sessions, entry)
             /\ s2.unfocus_sessions = s.unfocus_sessions
             /\ s2.accumulated_focused_time = s.accumulated_focused_time + entry.duration
             /\ s2.accumulated_unfocused_time = s.accumulated_unfocused_time
             /\ s2.current_focus_session_start = None
             /\ s2.current_unfocus_session_start = now
        ELSE /\ s2.unfocus_sessions = Append(s.unfocus_sessions, entry)
             /\ s2.focus_sessions = s.focus_sessions
             /\ s2.accumulated_unfocused_time = s.accumulated_unfocused_time + entry.duration
             /\ s2.accumulated_focused_time = s.accumulated_focused_time
             /\ s2.current_unfocus_session_start = None
             /\ s2.current_focus_session_start = now

\* the same session object before and after a step
SameSession(i) ==
    /\ i \in DOMAIN active_sessions
    /\ i \in DOMAIN active_sessions'
    /\ active_sessions'[i].session.id = active_sessions[i].session.id

\* C2: every flip of the smoothed state of a session that has been
\* observed before, the first flip of the session included, appends exactly
\* one closed interval of the state left, of duration now minus the open
\* interval's start, adds it to the matching total and opens an interval of
\* the new state at now.
C2_FlipClosesOne ==
    [][\A i \in DOMAIN active_sessions :
          (/\ SameSession(i)
           /\ active_sessions[i].session.first_obs # None
           /\ active_sessions'[i].session.is_focused # active_sessions[i].session.is_focused)
          => FlipClosesOne(active_sessions[i].session, active_sessions'[i].session, clock)]_vars

\* C5: a start request for a key that has a live session is rejected with
\* an error and leaves the registry, and so the existing session, as it was.
C5_DuplicateStartRejected ==
    [][\A sid \in Sids, user_id \in UserIds :
          (/\ KeyIndex(active_sessions, user_id) # 0
           /\ handle_start_tracking(sid, user_id, "m1"))
          => /\ active_sessions' = active_sessions
             /\ out'.emitted = <<Emit("error")>>]_vars

\* C7: after a stop or a disconnect of a connection no registry entry owned
\* by that connection remains.
C7_NothingOwnedAfterTeardown ==
    [][(out'.op = "stop_tracking" \/ out'.op = "disconnect")
          => \A e \in {active_sessions'[i] : i \in 1..Len(active_sessions')} :
                 e.sid # out'.sid]_vars

\* C10: stop_tracking from a connection that owns no session changes
\* neither the registry nor any session, acknowledges nothing and sends
\* nothing to the sink.
C10_StopWithoutSessionIsNoOp ==
    [][(out'.op = "stop_tracking" /\ OwnedIndex(active_sessions, out'.sid) = 0)
          => /\ active_sessions' = active_sessions
             /\ ledger' = ledger
             /\ out'.emitted = <<>>
             /\ out'.posts = <<>>]_vars

\* a stop from a connection with no session has been handled while another
\* connection's session is live
C10_Witness ==
    /\ out.op = "stop_tracking"
    /\ out.emitted = <<>>
    /\ OwnedIndex(active_sessions, out.sid) = 0
    /\ active_sessions # <<>>

\* The scenario of C4 for a session begun at t0: first observed at t0, its
\* smoothed state focused from t0, unfocused from t0 + 12 s, focused again
\* from t0 + 20 s, and the clock at t0 + 30 s.
Scenario(s) ==
    /\ s.first_obs = s.session_start
    /\ s.flips = << [at |-> s.session_start, to |-> TRUE],
                    [at |-> s.session_start + Sec(12), to |-> FALSE],
                    [at |-> s.session_start + Sec(20), to |-> TRUE] >>
    /\ clock = s.session_start + Sec(30)

C8_FlushInEvery30sWindow ==
    \A s \in Sessions :
        clock - s.last_save_time <=
            Sec(save_interval) + (IF s.last_save_time = s.session_start THEN 0 ELSE 1)

\* the requests the final flush of the entries torn down sends
FinalPosts(gone) ==
    Concat([k \in 1..Len(gone) |->
               save_tracking_data(gone[k].session, get_metrics(gone[k].session, clock), "ok").posts])

\* C8, amended: a periodic flush is made by the first frame processed 30 s
\* or more after the previous one (after the creation, for the first), so
\* after every processed frame less than 30 s have passed since the last
\* flush, and with frames at most StreamGap ticks apart the sink is invoked
\* in every window of 30 s and StreamGap ticks; a stop or a disconnect invokes the
\* sink exactly once more for each session it tears down, with the snapshot
\* of the totals at that time.
C8_FlushCadence ==
    /\ [](\A s \in Sessions :
             /\ s.last_obs # None => s.last_obs - s.last_save_time < Sec(save_interval)
             /\ clock - s.last_save_time < Sec(save_interval) + StreamGap)
    /\ [][/\ out'.op = "stop_tracking" /\ OwnedIndex(active_sessions, out'.sid) # 0
              => out'.posts =
                     FinalPosts(<<active_sessions[OwnedIndex(active_sessions, out'.sid)]>>)
          /\ out'.op = "disconnect"
              => out'.posts =
                     FinalPosts(SelectSeq(active_sessions, LAMBDA e: e.sid = out'.sid))]_vars

\* a session that was flushed periodically has just been torn down
C8_Witness ==
    /\ out.op \in {"stop_tracking", "disconnect"}
    /\ Len(out.posts) = 1
    /\ \E id \in SessionIds :
           /\ ledger[id].periodic >= 1
           /\ ledger[id].finals = 1
           /\ out.posts[1].id = id

\* C9: a failure of the sink during a periodic or a final flush is
\* swallowed.  The frame yields the tracking update and leaves the session
\* as a successful flush would; a stop still acknowledges and removes the
\* entry, a disconnect still removes every entry of the connection.
C9_SinkFailureSwallowed ==
    [][(out'.responses # <<>> /\ out'.responses[1] # "ok") =>
          LET sid == out'.sid
              outcome == out'.responses[1]
              i == OwnedIndex(active_sessions, sid)
          IN  /\ out'.op = "video_frame" =>
                     \A frame \in Frames :
                         (Posting(sid, frame) /\ handle_video_frame(sid, frame, outcome)) =>
                             LET ok == process_frame(active_sessions[i].session, frame,
                                                     clock, "ok")
                             IN  /\ Len(ok.result) = 1
                                 /\ out'.emitted =
                                        <<[event |-> "tracking_update", data |-> ok.result[1]]>>
                                 /\ out'.posts = ok.posts
                                 /\ active_sessions' =
                                        [active_sessions EXCEPT ![i].session = ok.session]
              /\ out'.op = "stop_tracking" =>
                     /\ out'.emitted = <<Emit("tracking_stopped")>>
                     /\ active_sessions' = DelItem(active_sessions, i)
              /\ out'.op = "disconnect" =>
                     active_sessions' = SelectSeq(active_sessions, LAMBDA e: e.sid # sid)]_vars

\* a frame whose periodic flush failed has been answered with its update
C9_Witness ==
    /\ out.op = "video_frame"
    /\ out.responses # <<>>
    /\ out.responses[1] # "ok"
    /\ out.emitted # <<>>

\* C11: an undecodable frame is skipped.  The handler that passes one to
\* process_frame leaves the registry, and so every field of the session, as
\* it was, answers nothing and sends nothing to the sink.
C11_MalformedFrameSkipped ==
    [][(out'.op = "video_frame" /\ out'.frame.kind = "malformed")
          => /\ active_sessions' = active_sessions
             /\ ledger' = ledger
             /\ out'.emitted = <<>>
             /\ out'.posts = <<>>]_vars

\* an undecodable frame has been handled for a session that has been
\* observed before and whose periodic save is due
C11_Witness ==
    /\ out.op = "video_frame"
    /\ out.frame.kind = "malformed"
    /\ \E e \in Entries :
           /\ e.sid = out.sid
           /\ e.session.focus_history # <<>>
           /\ SaveDue(e.session, clock)

\* The session of entry i has been given a classified frame in this step.
Observed(i) ==
    /\ out'.op = "video_frame"
    /\ out'.frame.kind = "ok"
    /\ i = OwnedIndex(active_sessions, out'.sid)
    /\ SameSession(i)

\* the accumulator of a session: state, open-interval starts, totals and
\* closed intervals
Accumulator(s) ==
    << s.is_focused, s.current_focus_session_start, s.current_unfocus_session_start,
       s.accumulated_focused_time, s.accumulated_unfocused_time,
       s.focus_sessions, s.unfocus_sessions >>

\* C12: smoothing stability.  When the window an observation leaves holds
\* focus_history_size observations, all alike but one, the smoothed state
\* is that of the majority and the observation flips nothing: state and
\* accumulator are as before it.
C12_SmoothingStability ==
    [][\A i \in DOMAIN active_sessions :
          LET s == active_sessions[i].session
              s2 == active_sessions'[i].session
              n == SumBools(s2.focus_history)
          IN  (/\ Observed(i)
               /\ Len(s2.focus_history) = focus_history_size
               /\ n \in {1, focus_history_size - 1})
              => /\ s2.is_focused = (n = focus_history_size - 1)
                 /\ Accumulator(s2) = Accumulator(s)
                 /\ s2.flips = s.flips]_vars

\* a lone unfocused observation has just arrived in a window of nine focused
\* ones, and the session is still focused
C12_Witness ==
    /\ out.op = "video_frame"
    /\ out.frame.kind = "ok"
    /\ ~out.frame.is_focused
    /\ \E s \in Sessions :
           /\ Len(s.focus_history) = focus_history_size
           /\ SumBools(s.focus_history) = focus_history_size - 1
           /\ ~s.focus_history[focus_history_size]
           /\ s.is_focused

\* the last n elements of a sequence, all of it when it has fewer
LastN(q, n) == SubSeq(q, (IF Len(q) > n THEN Len(q) - n ELSE 0) + 1, Len(q))

\* C13: the window holds the last min(k, 10) observations in arrival order
\* after the k-th one: it never holds more than 10, an observation goes in
\* last and the oldest goes out of a full window; and the state of an
\* observed session is focused iff more than six tenths of the window are.
C13_WindowAndThreshold ==
    /\ [](\A s \in Sessions :
             LET h == s.focus_history
                 k == WindowFrames - left.frames
             IN  /\ Len(h) <= 10
                 /\ left.pace = "window" => Len(h) = (IF k < 10 THEN k ELSE 10)
                 /\ h # <<>> => (s.is_focused <=> 10 * SumBools(h) > 6 * Len(h)))
    /\ [][\A i \in DOMAIN active_sessions :
             Observed(i) =>
                 active_sessions'[i].session.focus_history =
                     LastN(Append(active_sessions[i].session.focus_history,
                                  out'.frame.is_focused), 10)]_vars

\* the eleventh observation has left six focused ones of ten in the window,
\* the evicted one was focused too, and the session is unfocused
C13_Witness ==
    /\ left.pace = "window"
    /\ left.frames = WindowFrames - 11
    /\ \E s \in Sessions :
           /\ Len(s.focus_history) = 10
           /\ SumBools(s.focus_history) = 6
           /\ ~s.is_focused
           /\ s.flips # <<>>

C15_SnapshotFormula ==
    \A s \in Sessions :
        LET m == get_metrics(s, clock)
            open == IF s.flips = <<>> THEN s.first_obs ELSE s.flips[Len(s.flips)].at
            focused_total == s.accumulated_focused_time +
                             (IF s.is_focused THEN clock - open ELSE 0)
            unfocused_total == s.accumulated_unfocused_time +
                               (IF s.is_focused THEN 0 ELSE clock - open)
            total == focused_total + unfocused_total
        IN  IF s.first_obs = None
            THEN m.focused_time = 0 /\ m.unfocused_time = 0 /\ m.total_time = 0
                 /\ m.focus_percentage = 0
            ELSE /\ m.focused_time = Round1(focused_total)
                 /\ m.unfocused_time = Round1(unfocused_total)
                 /\ m.total_time = Round1(total)
                 /\ m.focus_percentage =
                        (IF total = 0 THEN 0 ELSE RoundHalfEven(1000 * focused_total, total))
                 /\ m.focus_sessions = Len(s.focus_sessions)
                 /\ m.unfocus_sessions = Len(s.unfocus_sessions)

\* C16: every entry of the registry is owned by a connection that is
\* still connected; no entry carries the id of a connection that has gone.
C16_EntriesOwnedByLiveConnections ==
    \A e \in Entries : conn[e.sid] = "connected"

\* a connection that owned two sessions has gone, both were torn down with
\* it, and the other connection is there
C16_Witness ==
    /\ out.op = "disconnect"
    /\ conn[out.sid] = "gone"
    /\ Len(out.posts) = 2
    /\ \E c \in Sids : conn[c] = "connected"

\* C17: session isolation.  The handling of a frame, whatever becomes of
\* it, changes at most one entry of the registry, one owned by the
\* connection that sent the frame: every other live session keeps its
\* window, state, starts, totals, closed intervals and last save time.
C17_SessionIsolation ==
    [][out'.op = "video_frame" =>
          /\ Len(active_sessions') = Len(active_sessions)
          /\ \A j \in DOMAIN active_sessions :
                 active_sessions'[j] # active_sessions[j] =>
                     /\ active_sessions[j].sid = out'.sid
                     /\ active_sessions'[j].sid = out'.sid
                     /\ active_sessions'[j].session.id = active_sessions[j].session.id
                     /\ \A k \in DOMAIN active_sessions :
                            active_sessions'[k] # active_sessions[k] => k = j]_vars

\* a frame whose periodic save failed has been handled while the session
\* of another connection was live
C17_Witness ==
    /\ out.op = "video_frame"
    /\ out.responses # <<>>
    /\ out.responses[1] # "ok"
    /\ \E e \in Entries : e.sid # out.sid /\ e.session.focus_history # <<>>

\* C20: an observation whose smoothed state is the state the session is
\* in changes the window only: state, open-interval starts, totals and
\* closed intervals stay as they were.
C20_SameStateIsNoOp ==
    [][\A i \in DOMAIN active_sessions :
          LET s == active_sessions[i].session
              s2 == active_sessions'[i].session
          IN  (Observed(i) /\ Smoothed(s2.focus_history) = s.is_focused)
              => /\ Accumulator(s2) = Accumulator(s)
                 /\ s2.flips = s.flips]_vars

\* a focused session has just been observed focused again, some time after
\* its interval opened
C20_Witness ==
    /\ out.op = "video_frame"
    /\ out.frame.kind = "ok"
    /\ \E e \in Entries :
           /\ e.sid = out.sid
           /\ e.session.last_obs = clock
           /\ e.session.is_focused
           /\ Len(e.session.flips) = 1
           /\ e.session.current_focus_session_start < clock

\* the calls in flight that come from connection sid
InFlight(sid) == {k \in DOMAIN running : running[k].sid = sid}

C21_PeriodicFlushDecision ==
    /\ [](\A s \in Sessions :
             ledger[s.id].periodic = 0 => s.last_save_time = s.session_start)
    /\ [][\A i \in DOMAIN active_sessions :
             LET s == active_sessions[i].session
                 s2 == active_sessions'[i].session
                 due == clock - s.last_save_time >= Sec(save_interval)
             IN  /\ Observed(i) =>
                        IF due
                        THEN /\ Len(out'.posts) = 1
                             /\ out'.posts[1].id = s.id
                             /\ s2.last_save_time = clock
                             /\ ledger'[s.id].periodic = ledger[s.id].periodic + 1
                        ELSE /\ out'.posts = <<>>
                             /\ s2.last_save_time = s.last_save_time
                             /\ ledger'[s.id].periodic = ledger[s.id].periodic
                 /\ (SameSession(i) /\ ~Observed(i)) =>
                        /\ s2.last_save_time = s.last_save_time
                        /\ ledger'[s.id].periodic = ledger[s.id].periodic]_vars

\* the second periodic flush of a session has just been made, 30 s after
\* the first, and the sink has failed it
C21_Witness ==
    /\ out.op = "video_frame"
    /\ Len(out.posts) = 1
    /\ out.responses[1] # "ok"
    /\ ledger[out.posts[1].id].periodic = 2
    /\ \E s \in Sessions :
           /\ s.id = out.posts[1].id
           /\ s.last_save_time = clock
           /\ clock = s.session_start + 2 * Sec(save_interval)

\* C22: zero-length intervals are kept.  When the smoothed state of a
\* session flips at the timestamp of its previous flip, whatever that
\* timestamp is, the interval between the two flips is appended to the
\* closed intervals of the state left, with start and end at that timestamp
\* and duration 0, and the accumulated total of that state stays (0 is
\* added to it).
C22_ZeroLengthIntervalKept ==
    [][\A i \in DOMAIN active_sessions :
          LET s == active_sessions[i].session
              s2 == active_sessions'[i].session
              entry == [start |-> clock, end |-> clock, duration |-> 0]
          IN  (/\ Observed(i)
               /\ s.flips # <<>>
               /\ s.flips[Len(s.flips)].at = clock
               /\ s2.is_focused # s.is_focused)
              => IF s.is_focused
                 THEN /\ s2.focus_sessions = Append(s.focus_sessions, entry)
                      /\ s2.accumulated_focused_time = s.accumulated_focused_time
                 ELSE /\ s2.unfocus_sessions = Append(s.unfocus_sessions, entry)
                      /\ s2.accumulated_unfocused_time = s.accumulated_unfocused_time]_vars

\* C23: in every reachable state of a session at most one interval is
\* open and it is the one of the current state: current_focus_session_start
\* is set only when is_focused is true, current_unfocus_session_start only
\* when is_focused is false, and the two are never set together.
C23_AtMostOneOpen ==
    \A s \in Sessions :
        /\ s.current_focus_session_start # None => s.is_focused
        /\ s.current_unfocus_session_start # None => ~s.is_focused
        /\ ~ (/\ s.current_focus_session_start # None
               /\ s.current_unfocus_session_start # None)

\* the sum of the durations of a list of closed intervals
RECURSIVE SumDurations(_)
SumDurations(q) == IF q = <<>> THEN 0 ELSE Head(q).duration + SumDurations(Tail(q))

\* the entries of both lists of closed intervals of a session
Closed(s) ==
    {s.focus_sessions[k] : k \in DOMAIN s.focus_sessions}
        \cup {s.unfocus_sessions[k] : k \in DOMAIN s.unfocus_sessions}

\* C24: in every reachable state of a session accumulated_focused_time is
\* the sum of the durations of the entries of focus_sessions,
\* accumulated_unfocused_time the sum of those of unfocus_sessions, and
\* every closed entry has duration = end - start >= 0 (the clock does not
\* go back).
C24_TotalsAreSumsOfClosed ==
    \A s \in Sessions :
        /\ s.accumulated_focused_time = SumDurations(s.focus_sessions)
        /\ s.accumulated_unfocused_time = SumDurations(s.unfocus_sessions)
        /\ \A e \in Closed(s) : e.duration = e.end - e.start /\ e.duration >= 0

\* a session has closed two focused intervals, one of them of length zero,
\* and an unfocused one
C24_Witness ==
    \E s \in Sessions :
        /\ Len(s.focus_sessions) = 2
        /\ Len(s.unfocus_sessions) = 1
        /\ s.accumulated_focused_time > 0
        /\ \E e \in Closed(s) : e.duration = 0

\* C25: the totals get_metrics computes at the current time (lines
\* 319-329, before they are rounded) are both 0, with total 0 and
\* percentage 0, as long as the smoothed state of the session has never
\* flipped; from the first flip, at t0, on they add up to the time passed
\* since t0.
C25_TotalsSinceFirstFlip ==
    \A s \in Sessions :
        LET m == get_metrics(s, clock)
        IN  IF s.flips = <<>>
            THEN /\ current_focused(s, clock) = 0
                 /\ current_unfocused(s, clock) = 0
                 /\ m.focused_time = 0 /\ m.unfocused_time = 0
                 /\ m.total_time = 0
                 /\ m.focus_percentage = 0
            ELSE current_focused(s, clock) + current_unfocused(s, clock)
                     = clock - s.flips[1].at

\* the closed intervals of one kind, in the order they were closed
ClosedOf(s, kind) ==
    LET q == SelectSeq(s.closed, LAMBDA e: e.kind = kind)
    IN  [k \in 1..Len(q) |->
            [start |-> q[k].start, end |-> q[k].end, duration |-> q[k].duration]]

\* C26: the closed intervals of a session, taken in the order they were
\* closed across both lists, tile time and alternate in kind: each starts
\* where the one closed before it ended and is of the other kind, and an
\* interval that is open starts where the last closed one ended.
C26_ClosedIntervalsTile ==
    \A s \in Sessions :
        LET c == s.closed
        IN  /\ ClosedOf(s, "focus") = s.focus_sessions
            /\ ClosedOf(s, "unfocus") = s.unfocus_sessions
            /\ \A k \in 2..Len(c) :
                   /\ c[k].start = c[k - 1].end
                   /\ c[k].kind # c[k - 1].kind
            /\ c # <<>> =>
                   /\ s.current_focus_session_start # None =>
                          s.current_focus_session_start = c[Len(c)].end
                   /\ s.current_unfocus_session_start # None =>
                          s.current_unfocus_session_start = c[Len(c)].end

\* a session has closed a focused interval, an unfocused one of length
\* zero and a focused one that lasted, and its unfocused interval is open
C26_Witness ==
    \E s \in Sessions :
        /\ Len(s.closed) = 3
        /\ s.closed[2].kind = "unfocus"
        /\ s.closed[2].duration = 0
        /\ s.closed[3].duration > 0
        /\ s.current_unfocus_session_start = s.closed[3].end

====
